---- MODULE Spec2Model ----
(***************************************************************************)
(* Model of sdserver/cli.py: the variadic option parser (NargsOptions),    *)
(* the device selector (parse_device_callback), the three-layer wrapper    *)
(* pipeline of SDServerCommandGroup, its command lookup (get_command), the *)
(* command cache built at import, and the launch handler built by          *)
(* start_model_command.                                                    *)
(*                                                                         *)
(* Strings that the code inspects character by character (option tokens,   *)
(* device tokens) are sequences of one-character strings.                  *)
(***************************************************************************)
EXTENDS Integers, Sequences, FiniteSets, TLC

VARIABLES
    (* ---- process-wide state ---- *)
    pc,             \* position of the process (import, idle, call, unwind, done)
    gpus,           \* number of accelerators the platform reports
    cached_http,    \* _cached_http : key -> command object id (0 = not built yet)
    cached_grpc,    \* _cached_grpc : key -> command object id (0 = not built yet)
    builds,         \* every start_model_command construction so far, in order
    start_commands, \* commands registered on the start group: name -> object id
    aliases,        \* the start group's alias map, as <<alias, name>> pairs
    quiet_mode,     \* global quiet mode (set_quiet_mode)
    debug_mode,     \* global debug mode (set_debug_mode)
    invocations,    \* command invocations made so far in this process
    lookup,         \* what get_command was asked and what it gave
    (* ---- one command invocation ---- *)
    inv,            \* the command being invoked
    depth,          \* how many wrapper layers are currently entered
    kwargs,         \* common flags still present in the keyword arguments
    exc,            \* exception in flight ("none" when returning normally)
    ret,            \* value being returned / finally returned
    event,          \* the telemetry layer's CliEvent (kind "absent" when none)
    tracked,        \* events handed to analytics.track, in order
    inner_calls,    \* times the telemetry layer called its inner layer
    entered,        \* layers entered, outermost first
    seen,           \* layers an in-flight exception has unwound through
    raised_in,      \* where the exception in flight was raised
    echoed,         \* diagnostics printed by the handler
    server_starts,  \* server.start(...) calls made by the handler
    launch,         \* locals of model_start that describe the launch
    handler_kwargs, \* common flags the handler received
    (* ---- NargsOptions._parser ---- *)
    np_pc,          \* "build" while the command line is drawn, then "parsed"
    np_value,       \* value handed to _parser / the tuple it delivers
    np_rargs,       \* state.rargs
    np_input,       \* state.rargs before _parser ran
    (* ---- parse_device_callback ---- *)
    dv_pc,          \* "build" while the input is drawn, then "parsed"
    dv_value,       \* the raw value (kind "None" or kind "tuple")
    dv_result       \* what the callback returned

proc_vars == <<pc, gpus, cached_http, cached_grpc, builds,
               start_commands, aliases, quiet_mode, debug_mode, invocations,
               lookup>>
inv_vars == <<inv, depth, kwargs, exc, ret, event, tracked, inner_calls,
              entered, seen, raised_in, echoed, server_starts, launch,
              handler_kwargs>>
np_vars == <<np_pc, np_value, np_rargs, np_input>>
dv_vars == <<dv_pc, dv_value, dv_result>>
vars == <<proc_vars, inv_vars, np_vars, dv_vars>>

(***************************************************************************)
(* Bounds of the model.                                                    *)
(***************************************************************************)
MaxGpus == 2          \* accelerators reported by the platform: 0..MaxGpus
MaxInvocations == 2   \* command invocations per process lifetime
MaxTokens == 2        \* tokens in a raw device tuple
MaxChars == 4         \* characters in a raw device tuple, all tokens together
MaxArgs == 3          \* tokens left in state.rargs when _parser runs
MaxArgChars == 4      \* characters in state.rargs, all tokens together

(***************************************************************************)
(* Sequence helpers.                                                       *)
(***************************************************************************)
Range(s) == {s[i] : i \in 1..Len(s)}

RECURSIVE Flatten(_)
Flatten(ss) == IF ss = <<>> THEN <<>> ELSE Head(ss) \o Flatten(Tail(ss))

RECURSIVE SumLen(_)
SumLen(ss) == IF ss = <<>> THEN 0 ELSE Len(Head(ss)) + SumLen(Tail(ss))

\* Python: tok.startswith(prefix)
StartsWith(tok, prefix) ==
    /\ Len(tok) >= Len(prefix)
    /\ SubSeq(tok, 1, Len(prefix)) = prefix

(***************************************************************************)
(* NargsOptions.add_to_parser._parser (cli.py 114-141).                    *)
(***************************************************************************)
ArgChars == {"-", "q", "0", "1"}

\* self._nargs_parser.prefixes for the option declared as "--device" (line
\* 547): the parser option keeps the first character of the option's prefix
\* and, for a long option, the whole prefix.
prefixes_long_only == {<<"-", "-">>}
prefixes == {<<"-">>, <<"-", "-">>}

\* for prefix in prefixes: if state.rargs[0].startswith(prefix): done = True
NextIsOption(rargs) == \E prefix \in prefixes : StartsWith(rargs[1], prefix)

\* while state.rargs and not done: ... value.append(state.rargs.pop(0))
RECURSIVE nargs_loop(_, _)
nargs_loop(value, rargs) ==
    IF rargs = <<>> \/ NextIsOption(rargs)
    THEN [value |-> value, rargs |-> rargs]
    ELSE nargs_loop(Append(value, Head(rargs)), Tail(rargs))

\* _parser(value, state): value = [value]; the loop; value = tuple(value);
\* the previous process() stores the tuple and leaves state.rargs alone.
nargs_parser(value, rargs) == nargs_loop(<<value>>, rargs)

NpTotalChars == SumLen(np_rargs)

NoInput == [value |-> <<>>, rargs |-> <<>>]

NpOff == np_pc = "off" /\ np_value = <<>> /\ np_rargs = <<>> /\ np_input = NoInput

\* The command line after "--device": the first value, which the parser has
\* already popped, and the tokens still in state.rargs.
NpNewToken ==
    /\ np_pc = "build"
    /\ Len(np_rargs) < MaxArgs
    /\ np_rargs' = Append(np_rargs, <<>>)
    /\ UNCHANGED <<np_pc, np_value, np_input>>
    /\ UNCHANGED <<proc_vars, inv_vars, dv_vars>>

NpAppendChar(c) ==
    /\ np_pc = "build"
    /\ np_rargs # <<>>
    /\ NpTotalChars < MaxArgChars
    /\ np_rargs' = [np_rargs EXCEPT ![Len(np_rargs)] = Append(@, c)]
    /\ UNCHANGED <<np_pc, np_value, np_input>>
    /\ UNCHANGED <<proc_vars, inv_vars, dv_vars>>

NpParse ==
    /\ np_pc = "build"
    /\ LET r == nargs_parser(np_value, np_rargs)
       IN /\ np_input' = [value |-> np_value, rargs |-> np_rargs]
          /\ np_value' = r.value
          /\ np_rargs' = r.rargs
    /\ np_pc' = "parsed"
    /\ UNCHANGED <<proc_vars, inv_vars, dv_vars>>

(***************************************************************************)
(* parse_device_callback (cli.py 144-166).                                 *)
(***************************************************************************)
DeviceChars == {"0", "1", "2", ",", " ", "a", "l"}
Whitespace == {" "}
Digits == <<"0", "1", "2", "3", "4", "5", "6", "7", "8", "9">>

None == [kind |-> "None", items |-> <<>>]
Tuple(items) == [kind |-> "tuple", items |-> items]

\* utils.gpu_count(): the identifiers of the accelerators the platform
\* reports; the callers take len() of it (line 509) and enumerate it (line
\* 610).  An identifier i is kept as the text str(i).
gpu_count(n) == [kind |-> "gpu_count", items |-> [i \in 1..n |-> <<Digits[i]>>]]

\* Python: bool(x) and len(x) of a device value
Truthy(d) == d.kind # "None" /\ d.items # <<>>
PyLen(d) == Len(d.items)

\* Python: v.split(",")
RECURSIVE split_sep(_, _, _)
split_sep(v, sep, cur) ==
    IF v = <<>> THEN <<cur>>
    ELSE IF Head(v) = sep THEN <<cur>> \o split_sep(Tail(v), sep, <<>>)
    ELSE split_sep(Tail(v), sep, Append(cur, Head(v)))

\* Python: v.split(), runs of whitespace separate and no piece is empty
RECURSIVE split_ws(_, _)
split_ws(v, cur) ==
    IF v = <<>> THEN (IF cur = <<>> THEN <<>> ELSE <<cur>>)
    ELSE IF Head(v) \in Whitespace
         THEN (IF cur = <<>> THEN <<>> ELSE <<cur>>) \o split_ws(Tail(v), <<>>)
         ELSE split_ws(Tail(v), Append(cur, Head(v)))

\* the for loop of lines 158-165
RECURSIVE device_loop(_, _)
device_loop(value, parsed) ==
    IF value = <<>> THEN parsed
    ELSE LET v == Head(value)
         IN IF v = <<",">> THEN device_loop(Tail(value), parsed)
            ELSE IF "," \in Range(v)
                 THEN device_loop(Tail(value), parsed \o split_sep(v, ",", <<>>))
                 ELSE device_loop(Tail(value), parsed \o split_ws(v, <<>>))

All == <<"a", "l", "l">>

\* a slip that tests only the first token for the sentinel
is_all_first_only(value) == Len(value.items) >= 1 /\ value.items[1] = All
\* len(value) == 1 and value[0] == "all"
is_all(value) == Len(value.items) = 1 /\ value.items[1] = All

parse_device_callback(value, n) ==
    IF value.kind = "None" THEN value
    ELSE IF is_all(value) THEN gpu_count(n)
    ELSE Tuple(SelectSeq(device_loop(value.items, <<>>), LAMBDA x : x # <<>>))

DvOff == dv_pc = "off" /\ dv_value = None /\ dv_result = None

DvTotalChars == SumLen(dv_value.items)

\* the raw value: absent, or a tuple of tokens
DvTuple ==
    /\ dv_pc = "build"
    /\ dv_value.kind = "None"
    /\ dv_value' = Tuple(<<>>)
    /\ UNCHANGED <<dv_pc, dv_result>>
    /\ UNCHANGED <<proc_vars, inv_vars, np_vars>>

DvNewToken ==
    /\ dv_pc = "build"
    /\ dv_value.kind = "tuple"
    /\ Len(dv_value.items) < MaxTokens
    /\ dv_value' = Tuple(Append(dv_value.items, <<>>))
    /\ UNCHANGED <<dv_pc, dv_result>>
    /\ UNCHANGED <<proc_vars, inv_vars, np_vars>>

DvAppendChar(c) ==
    /\ dv_pc = "build"
    /\ dv_value.kind = "tuple"
    /\ dv_value.items # <<>>
    /\ DvTotalChars < MaxChars
    /\ dv_value' = Tuple([dv_value.items EXCEPT ![Len(dv_value.items)] = Append(@, c)])
    /\ UNCHANGED <<dv_pc, dv_result>>
    /\ UNCHANGED <<proc_vars, inv_vars, np_vars>>

DvParse ==
    /\ dv_pc = "build"
    /\ dv_result' = parse_device_callback(dv_value, gpus)
    /\ dv_pc' = "parsed"
    /\ UNCHANGED dv_value
    /\ UNCHANGED <<proc_vars, inv_vars, np_vars>>

(***************************************************************************)
(* The model registry and the command cache (cli.py 461-527, 682-701).     *)
(***************************************************************************)
\* an optional number (int or float option value): absent, or num/den
NoneQ == [some |-> FALSE, num |-> 0, den |-> 1]
Q(n, d) == [some |-> TRUE, num |-> n, den |-> d]

\* sdserver.CONFIG_MAPPING: the model keys, in the mapping's order
CONFIG_MAPPING == <<"opt", "stable_diffusion">>
ModelKeys == Range(CONFIG_MAPPING)

\* sdserver.AutoConfig.for_model(model_name): the metadata the code reads
sd_config(model_name) ==
    [model_name |-> model_name,
     start_name |-> IF model_name = "stable_diffusion" THEN "stable-diffusion" ELSE model_name,
     name_type  |-> IF model_name = "stable_diffusion" THEN "dasherize" ELSE "lowercase",
     requires_gpu |-> (model_name = "stable_diffusion"),
     timeout |-> Q(3600, 1),
     workers_per_resource |-> Q(1, 1)]

\* the names bound in the scopes model_start and noop can read: the locals of
\* start_model_command and of the handler, and the module's globals they use
scope_names ==
    {"sd_config", "env", "model_name", "command_attrs", "group", "available_gpu",
     "config", "server_attrs", "start_env", "analytics", "bentoml", "sdserver"}

\* Python raises NameError when it evaluates a name that no scope binds
NameDefined(n) == n \in scope_names

\* start_model_command(model_name, _serve_grpc): a new command object.  The
\* command is the stub when the model requires a GPU and none is available
\* (lines 508-525), else the launch handler (527-679); @group.command
\* registers it on the start group under the model's name, and its alias.
start_model_command(model_name, serve_grpc) ==
    LET cfg == sd_config(model_name)
        available_gpu == gpu_count(gpus)
    IN [key |-> model_name,
        name |-> cfg.model_name,
        grpc |-> serve_grpc,
        obj |-> Len(builds) + 1,
        handler |-> IF cfg.requires_gpu /\ PyLen(available_gpu) < 1
                    THEN "noop" ELSE "model_start",
        aliases |-> IF cfg.name_type = "dasherize" THEN {cfg.start_name} ELSE {}]

\* the effect of one construction on the process state
Construct(cmd) ==
    /\ builds' = Append(builds, cmd)
    /\ start_commands' = [start_commands EXCEPT ![cmd.name] = cmd.obj]
    /\ aliases' = aliases \cup {<<a, cmd.name>> : a \in cmd.aliases}

NextKey(cache) ==
    CONFIG_MAPPING[CHOOSE i \in 1..Len(CONFIG_MAPPING) :
        /\ cache[CONFIG_MAPPING[i]] = 0
        /\ \A j \in 1..(i - 1) : cache[CONFIG_MAPPING[j]] # 0]

\* line 682: _cached_http = {key: start_model_command(key, ...) for key in ...}
BuildCachedHttp ==
    /\ pc = "import_http"
    /\ LET key == NextKey(cached_http)
           cmd == start_model_command(key, FALSE)
       IN /\ Construct(cmd)
          /\ cached_http' = [cached_http EXCEPT ![key] = cmd.obj]
    /\ pc' = IF \A k \in ModelKeys : cached_http'[k] # 0 THEN "import_grpc" ELSE pc
    /\ UNCHANGED <<gpus, cached_grpc, quiet_mode, debug_mode, invocations, lookup>>
    /\ UNCHANGED <<inv_vars, np_vars, dv_vars>>

\* lines 683-686: _cached_grpc = {key: start_model_command(key, ..., _serve_grpc=True) ...}
BuildCachedGrpc ==
    /\ pc = "import_grpc"
    /\ LET key == NextKey(cached_grpc)
           cmd == start_model_command(key, TRUE)
       IN /\ Construct(cmd)
          /\ cached_grpc' = [cached_grpc EXCEPT ![key] = cmd.obj]
    /\ pc' = IF \A k \in ModelKeys : cached_grpc'[k] # 0 THEN "idle" ELSE pc
    /\ UNCHANGED <<gpus, cached_http, quiet_mode, debug_mode, invocations, lookup>>
    /\ UNCHANGED <<inv_vars, np_vars, dv_vars>>

(***************************************************************************)
(* Command lookup: SDServerCommandGroup.get_command (cli.py 319-328).      *)
(***************************************************************************)
\* the groups built with SDServerCommandGroup, by name: the two of this
\* module, and the gRPC group that get_command tells apart at line 326
Contexts == {"sdserver", "start", "start-grpc"}

\* names a user may type after a group
CommandNames == ModelKeys \cup {"stable-diffusion", "download", "bogus"}

NoLookup == [ctx |-> "", given |-> "", via |-> "", kind |-> "none",
             name |-> "", obj |-> 0]

\* self._aliases of the group: start_model_command registers on start_cli
\* (line 506), the root group's commands are registered without aliases
group_aliases(ctx) == IF ctx = "start" THEN aliases ELSE {}

\* BentoMLCommandGroup.resolve_alias: one look in the alias map
resolve_alias(ctx, cmd_name) ==
    IF \E a \in group_aliases(ctx) : a[1] = cmd_name
    THEN (CHOOSE a \in group_aliases(ctx) : a[1] = cmd_name)[2]
    ELSE cmd_name

\* self.commands of the group: name -> object id (the root group's commands
\* are not start commands: object id 0)
group_commands(ctx) ==
    IF ctx = "sdserver" THEN {"start", "download"}
    ELSE IF ctx = "start" THEN {k \in ModelKeys : start_commands[k] # 0}
    ELSE {}

\* click.Group.get_command: self.commands.get(cmd_name)
default_get_command(ctx, given, cmd_name) ==
    [ctx |-> ctx, given |-> given, via |-> "default",
     kind |-> IF cmd_name \in group_commands(ctx) THEN "command" ELSE "None",
     name |-> cmd_name,
     obj |-> IF ctx = "start" /\ cmd_name \in group_commands(ctx)
             THEN start_commands[cmd_name] ELSE 0]

get_command_without_alias(ctx, cmd_name) ==
    IF ctx = "start"
    THEN IF cmd_name \in DOMAIN cached_http
         THEN [ctx |-> ctx, given |-> cmd_name, via |-> "cache", kind |-> "command",
               name |-> cmd_name, obj |-> cached_http[cmd_name]]
         ELSE [ctx |-> ctx, given |-> cmd_name, via |-> "raise",
               kind |-> "BadArgumentUsage", name |-> cmd_name, obj |-> 0]
    ELSE IF ctx = "start-grpc"
    THEN [ctx |-> ctx, given |-> cmd_name, via |-> "raise", kind |-> "TypeError",
          name |-> cmd_name, obj |-> 0]
    ELSE default_get_command(ctx, cmd_name, cmd_name)

\* get_command, lines 319-328.  `raise NotImplemented` raises TypeError:
\* NotImplemented is not an exception
get_command(ctx, cmd_name) ==
    LET name == resolve_alias(ctx, cmd_name)
    IN IF ctx = "start"
       THEN IF name \in DOMAIN cached_http
            THEN [ctx |-> ctx, given |-> cmd_name, via |-> "cache", kind |-> "command",
                  name |-> name, obj |-> cached_http[name]]
            ELSE \* KeyError: BadArgumentUsage(f"{cmd_name} is not a valid model identifier ...")
                 [ctx |-> ctx, given |-> cmd_name, via |-> "raise",
                  kind |-> "BadArgumentUsage", name |-> name, obj |-> 0]
       ELSE IF ctx = "start-grpc"
       THEN [ctx |-> ctx, given |-> cmd_name, via |-> "raise", kind |-> "TypeError",
             name |-> name, obj |-> 0]
       ELSE default_get_command(ctx, cmd_name, name)

\* a group is asked for one of its commands
GetCommand(ctx, cmd_name) ==
    /\ pc = "idle"
    /\ lookup' = get_command(ctx, cmd_name)
    /\ pc' = "resolved"
    /\ UNCHANGED <<gpus, cached_http, cached_grpc, builds, start_commands, aliases,
                   quiet_mode, debug_mode, invocations>>
    /\ UNCHANGED <<inv_vars, np_vars, dv_vars>>

\* the lookup was not followed by an invocation: it raised, it found nothing,
\* or the caller only wanted the command object
LookupEnds ==
    /\ pc = "resolved"
    /\ lookup' = NoLookup
    /\ pc' = "idle"
    /\ UNCHANGED <<gpus, cached_http, cached_grpc, builds, start_commands, aliases,
                   quiet_mode, debug_mode, invocations>>
    /\ UNCHANGED <<inv_vars, np_vars, dv_vars>>

(***************************************************************************)
(* One command invocation: the wrapped callable (cli.py 225-376).          *)
(***************************************************************************)
CommonFlags == {"quiet", "debug", "do_not_track"}

\* an exception message: the text, the group and command put in front of it
\* by the error translation, and the colour click.style wraps it in
NoMsg == [group |-> "", command |-> "", text |-> "", fg |-> ""]
NoExc == [kind |-> "none", msg |-> NoMsg]
Raise(kind, text) ==
    [kind |-> kind, msg |-> [group |-> "", command |-> "", text |-> text, fg |-> ""]]

\* line 312: f"[{group.name}] '{command_name}' failed: " + err.message
failure_message_without_group(group, command, text) ==
    [group |-> "", command |-> command, text |-> text, fg |-> ""]
failure_message(group, command, text) ==
    [group |-> group, command |-> command, text |-> text, fg |-> ""]

\* click.style(text, fg=...): the text between the colour's escape code and
\* the reset code
click_style(msg, fg) == [msg EXCEPT !.fg = fg]

NoEvent == [kind |-> "absent", cmd_group |-> "", cmd_name |-> "",
            error_type |-> "None", return_code |-> 0]
NoInv == [group |-> "", name |-> "", handler |-> "", obj |-> 0, grpc |-> FALSE,
          quiet |-> FALSE, debug |-> FALSE, do_not_track |-> FALSE]
NoLaunch == [built |-> FALSE, device_raw |-> None, device |-> None,
             inherited |-> <<>>, opts |-> <<>>, config_env |-> <<>>,
             num_workers |-> 0, env_set |-> FALSE, validated |-> FALSE,
             interrupted |-> FALSE, wpr_opt |-> NoneQ, wpr |-> NoneQ]

InvIdle ==
    /\ inv = NoInv /\ depth = 0 /\ kwargs = {} /\ exc = NoExc /\ ret = "None"
    /\ event = NoEvent /\ tracked = <<>> /\ inner_calls = 0 /\ entered = <<>>
    /\ seen = <<>> /\ raised_in = "none" /\ echoed = <<>> /\ server_starts = <<>>
    /\ launch = NoLaunch /\ handler_kwargs = {}

\* SDServerCommandGroup.command.wrapper, lines 352-359: each wrapper goes
\* around what has been wrapped so far
Wrap(layer, inner) == <<layer>> \o inner
WrappedLayers_telemetry_outermost ==
    Wrap("usage_tracking", Wrap("exception_handling", Wrap("common_params", <<>>)))
WrappedLayers ==
    Wrap("exception_handling", Wrap("usage_tracking", Wrap("common_params", <<>>)))

\* the command starts to run: click calls the wrapped callable with the
\* parsed parameters, the three common flags among them
Begin(cmd, quiet, debug, dnt) ==
    /\ pc' = "call"
    /\ invocations' = invocations + 1
    /\ inv' = [group |-> cmd.group, name |-> cmd.name, handler |-> cmd.handler,
               obj |-> cmd.obj, grpc |-> cmd.grpc,
               quiet |-> quiet, debug |-> debug, do_not_track |-> dnt]
    /\ kwargs' = CommonFlags
    /\ lookup' = NoLookup
    /\ UNCHANGED <<depth, exc, ret, event, tracked, inner_calls, entered, seen,
                   raised_in, echoed, server_starts, launch, handler_kwargs>>
    /\ UNCHANGED <<gpus, quiet_mode, debug_mode, np_vars, dv_vars>>

\* `sdserver download ...`: the command registered at line 707
InvokeDownload(quiet, debug, dnt) ==
    /\ pc = "idle" /\ invocations < MaxInvocations
    /\ Begin([group |-> "sdserver", name |-> "download", handler |-> "download",
              obj |-> 0, grpc |-> FALSE], quiet, debug, dnt)
    /\ UNCHANGED <<cached_http, cached_grpc, builds, start_commands, aliases>>

\* `sdserver start <name> ...`: click invokes the command get_command has
\* handed out of _cached_http (lines 321-323)
InvokeStart(quiet, debug, dnt) ==
    /\ pc = "resolved" /\ invocations < MaxInvocations
    /\ lookup.ctx = "start" /\ lookup.kind = "command"
    /\ LET cmd == builds[lookup.obj]
       IN Begin([group |-> "start", name |-> cmd.name, handler |-> cmd.handler,
                 obj |-> cmd.obj, grpc |-> cmd.grpc], quiet, debug, dnt)
    /\ UNCHANGED <<cached_http, cached_grpc, builds, start_commands, aliases>>

\* the Python API, lines 689-704: start(model_name, ...) builds the command
\* with start_model_command and calls it
ApiStart(key, quiet, debug, dnt) ==
    /\ pc = "idle" /\ invocations < MaxInvocations
    /\ LET cmd == start_model_command(key, FALSE)
       IN /\ Construct(cmd)
          /\ Begin([group |-> "start", name |-> cmd.name, handler |-> cmd.handler,
                    obj |-> cmd.obj, grpc |-> cmd.grpc], quiet, debug, dnt)
    /\ UNCHANGED <<cached_http, cached_grpc>>

\* what every step of an invocation leaves alone
InvFrame ==
    /\ UNCHANGED <<gpus, cached_http, cached_grpc, builds,
                   start_commands, aliases, invocations, inv, lookup>>
    /\ UNCHANGED <<np_vars, dv_vars>>

\* isinstance(e, Exception): KeyboardInterrupt derives from BaseException only
IsException(kind) == kind \notin {"none", "KeyboardInterrupt"}

\* an exception leaves the layer that is being entered: it unwinds through
\* the layers already entered
RaiseInLayer(layer, e) ==
    /\ pc' = "unwind"
    /\ exc' = e
    /\ raised_in' = layer
    /\ UNCHANGED depth

\* exception_handling.wrapper, lines 307-309: try: return func(*args, **attrs)
ExceptionHandlingCall ==
    /\ pc = "call" /\ depth < Len(WrappedLayers)
    /\ WrappedLayers[depth + 1] = "exception_handling"
    /\ entered' = Append(entered, "exception_handling")
    /\ depth' = depth + 1
    /\ UNCHANGED <<pc, kwargs, exc, ret, event, tracked, inner_calls, seen,
                   raised_in, echoed, server_starts, launch, handler_kwargs,
                   quiet_mode, debug_mode>>
    /\ InvFrame

\* usage_tracking.wrapper, lines 271-282: do_not_track is taken out of the
\* keyword arguments; without it the event is created; func is called
UsageTrackingCall ==
    /\ pc = "call" /\ depth < Len(WrappedLayers)
    /\ WrappedLayers[depth + 1] = "usage_tracking"
    /\ entered' = Append(entered, "usage_tracking")
    /\ IF "do_not_track" \notin kwargs
       THEN /\ RaiseInLayer("usage_tracking", Raise("TypeError", "missing argument"))
            /\ UNCHANGED <<kwargs, event, inner_calls>>
       ELSE /\ kwargs' = kwargs \ {"do_not_track"}
            /\ event' = IF inv.do_not_track THEN NoEvent
                        ELSE [kind |-> "pending", cmd_group |-> inv.group,
                              cmd_name |-> inv.name, error_type |-> "None",
                              return_code |-> 0]
            /\ inner_calls' = inner_calls + 1
            /\ depth' = depth + 1
            /\ UNCHANGED <<pc, exc, raised_in>>
    /\ UNCHANGED <<ret, tracked, seen, echoed, server_starts, launch,
                   handler_kwargs, quiet_mode, debug_mode>>
    /\ InvFrame

\* lines 248-253: set_debug_mode(True) is under `elif debug`, so only
\* without quiet
debug_enabled_ignoring_quiet(quiet, debug) == debug
debug_enabled(quiet, debug) == ~quiet /\ debug

\* common_params.wrapper, lines 247-257: quiet and debug are taken out of the
\* keyword arguments, the global modes are set, logging is configured (which
\* may fail or be interrupted), then f is called
CommonParamsCall(outcome) ==
    /\ pc = "call" /\ depth < Len(WrappedLayers)
    /\ WrappedLayers[depth + 1] = "common_params"
    /\ entered' = Append(entered, "common_params")
    /\ IF ~({"quiet", "debug"} \subseteq kwargs)
       THEN /\ RaiseInLayer("common_params", Raise("TypeError", "missing argument"))
            /\ UNCHANGED <<kwargs, quiet_mode, debug_mode>>
       ELSE /\ kwargs' = kwargs \ {"quiet", "debug"}
            /\ quiet_mode' = (quiet_mode \/ inv.quiet)
            /\ debug_mode' = (debug_mode \/ debug_enabled(inv.quiet, inv.debug))
            /\ IF outcome = "ok"
               THEN /\ depth' = depth + 1
                    /\ UNCHANGED <<pc, exc, raised_in>>
               ELSE RaiseInLayer("common_params", Raise(outcome, "configure_logging"))
    /\ UNCHANGED <<ret, event, tracked, inner_calls, seen, echoed,
                   server_starts, launch, handler_kwargs>>
    /\ InvFrame

\* the value or the exception leaves common_params.wrapper, which has no try
CommonParamsReturn ==
    /\ pc = "unwind" /\ depth >= 1
    /\ WrappedLayers[depth] = "common_params"
    /\ depth' = depth - 1
    /\ seen' = IF exc.kind = "none" THEN seen
               ELSE Append(seen, [layer |-> "common_params", caught |-> FALSE])
    /\ UNCHANGED <<pc, kwargs, exc, ret, event, tracked, inner_calls, entered,
                   raised_in, echoed, server_starts, launch, handler_kwargs,
                   quiet_mode, debug_mode>>
    /\ InvFrame

\* usage_tracking.wrapper, lines 272-274 (do_not_track) and 283-293
UsageTrackingReturn ==
    /\ pc = "unwind" /\ depth >= 1
    /\ WrappedLayers[depth] = "usage_tracking"
    /\ depth' = depth - 1
    /\ IF event.kind = "absent"
       THEN \* lines 272-274, or the layer's own call failed: nothing is emitted
            /\ UNCHANGED <<event, tracked>>
            /\ seen' = IF exc.kind = "none" THEN seen
                       ELSE Append(seen, [layer |-> "usage_tracking", caught |-> FALSE])
       ELSE IF exc.kind = "none"
       THEN \* lines 283-286
            /\ tracked' = Append(tracked, event)
            /\ UNCHANGED <<event, seen>>
       ELSE IF IsException(exc.kind)
       THEN \* lines 287-293: except Exception as e
            /\ event' = [event EXCEPT !.error_type = exc.kind,
                                      !.return_code = IF exc.kind = "KeyboardInterrupt"
                                                      THEN 2 ELSE 1]
            /\ tracked' = Append(tracked, event')
            /\ seen' = Append(seen, [layer |-> "usage_tracking", caught |-> TRUE])
       ELSE \* no except clause matches: the exception passes
            /\ UNCHANGED <<event, tracked>>
            /\ seen' = Append(seen, [layer |-> "usage_tracking", caught |-> FALSE])
    /\ UNCHANGED <<pc, kwargs, exc, ret, inner_calls, entered, raised_in, echoed,
                   server_starts, launch, handler_kwargs, quiet_mode, debug_mode>>
    /\ InvFrame

\* exception_handling.wrapper, lines 310-315
ExceptionHandlingReturn ==
    /\ pc = "unwind" /\ depth >= 1
    /\ WrappedLayers[depth] = "exception_handling"
    /\ depth' = depth - 1
    /\ IF exc.kind = "SDServerException"
       THEN \* raise click.ClickException("[group] 'command' failed: " + err.message)
            /\ exc' = [kind |-> "ClickException",
                       msg |-> click_style(failure_message(inv.group, inv.name,
                                                           exc.msg.text), "red")]
            /\ seen' = Append(seen, [layer |-> "exception_handling", caught |-> TRUE])
            /\ UNCHANGED ret
       ELSE IF exc.kind = "KeyboardInterrupt"
       THEN \* pass: the wrapper returns None
            /\ exc' = NoExc
            /\ ret' = "None"
            /\ seen' = Append(seen, [layer |-> "exception_handling", caught |-> TRUE])
       ELSE /\ UNCHANGED <<exc, ret>>
            /\ seen' = IF exc.kind = "none" THEN seen
                       ELSE Append(seen, [layer |-> "exception_handling", caught |-> FALSE])
    /\ UNCHANGED <<pc, kwargs, event, tracked, inner_calls, entered, raised_in,
                   echoed, server_starts, launch, handler_kwargs, quiet_mode,
                   debug_mode>>
    /\ InvFrame

\* the wrapped callable has returned or raised to its caller
Complete ==
    /\ pc = "unwind" /\ depth = 0
    /\ pc' = "done"
    /\ UNCHANGED <<inv_vars, quiet_mode, debug_mode>>
    /\ InvFrame

\* the process goes on to another invocation (the Python API is called
\* again, or the test runner invokes another command)
NextInvocation ==
    /\ pc = "done" /\ invocations < MaxInvocations
    /\ pc' = "idle"
    /\ inv' = NoInv /\ depth' = 0 /\ kwargs' = {} /\ exc' = NoExc /\ ret' = "None"
    /\ event' = NoEvent /\ tracked' = <<>> /\ inner_calls' = 0 /\ entered' = <<>>
    /\ seen' = <<>> /\ raised_in' = "none" /\ echoed' = <<>> /\ server_starts' = <<>>
    /\ launch' = NoLaunch /\ handler_kwargs' = {}
    /\ UNCHANGED <<gpus, cached_http, cached_grpc, builds,
                   start_commands, aliases, invocations, quiet_mode, debug_mode,
                   lookup>>
    /\ UNCHANGED <<np_vars, dv_vars>>

(***************************************************************************)
(* The handlers (cli.py 519-525, 557-679, 707-794).                        *)
(***************************************************************************)
HandlerFrame ==
    /\ UNCHANGED <<depth, kwargs, event, tracked, inner_calls, entered, seen,
                   quiet_mode, debug_mode>>
    /\ InvFrame

\* the handler's outcome starts to travel outwards
HandlerEnds(e, value) ==
    /\ pc' = "unwind"
    /\ exc' = e
    /\ ret' = IF e.kind = "none" THEN value ELSE ret
    /\ raised_in' = IF e.kind = "none" THEN raised_in ELSE "handler"
    /\ handler_kwargs' = kwargs

AtHandler(h) == pc = "call" /\ depth = Len(WrappedLayers) /\ inv.handler = h

\* download_models, lines 714-794: it returns the model reference, fails
\* with the domain error or with another exception, or is interrupted
download_models(outcome) ==
    /\ AtHandler("download")
    /\ IF kwargs # {}
       THEN HandlerEnds(Raise("TypeError", "unexpected keyword argument"), "None")
       ELSE IF outcome = "return"
       THEN HandlerEnds(NoExc, "_ref")
       ELSE HandlerEnds(Raise(outcome, "bad weight"), "None")
    /\ UNCHANGED <<echoed, server_starts, launch>>
    /\ HandlerFrame

\* noop, lines 520-523
noop ==
    /\ AtHandler("noop")
    /\ IF kwargs # {}
       THEN /\ HandlerEnds(Raise("TypeError", "unexpected keyword argument"), "None")
            /\ UNCHANGED echoed
       ELSE /\ echoed' = Append(echoed, "No GPU available, therefore this command is disabled")
            /\ IF NameDefined("llm_config")
               THEN HandlerEnds(NoExc, "llm_config")
               ELSE HandlerEnds(Raise("NameError", "llm_config"), "None")
    /\ UNCHANGED <<server_starts, launch>>
    /\ HandlerFrame

\* first_not_none(value, default=...)
first_not_none(value, default) == IF value.some THEN value ELSE default

\* int(1 / workers_per_resource) for a value other than 0: int() drops the
\* fraction, towards zero
num_workers_of(wpr) ==
    IF wpr.num > 0 THEN wpr.den \div wpr.num ELSE -(wpr.den \div (-wpr.num))

\* one piece of the configuration-options text
Frag(key, runner, idx, dev, q) ==
    [key |-> key, runner |-> runner, idx |-> idx, dev |-> dev,
     num |-> q.num, den |-> q.den]
Space == Frag(" ", "", -1, <<>>, NoneQ)
Inherited == Frag("<inherited>", "", -1, <<>>, NoneQ)

\* a slip that numbers the identifiers from one
config_options_opts_one_based(config, server_timeout, wpr, device) ==
    <<Frag("tracing.sample_rate", "", -1, <<>>, Q(1, 1)),
      Frag("api_server.traffic.timeout", "", -1, <<>>, server_timeout),
      Frag("traffic.timeout", config.start_name, -1, <<>>, config.timeout),
      Frag("workers_per_resource", config.start_name, -1, <<>>, wpr)>>
    \o (IF Truthy(device)
        THEN IF PyLen(device) > 1
             THEN [i \in 1..PyLen(device) |->
                     Frag("resources.nvidia.com/gpu[idx]", config.start_name,
                          i, device.items[i], NoneQ)]
             ELSE <<Frag("resources.nvidia.com/gpu=[list]", config.start_name,
                         -1, device.items[1], NoneQ)>>
        ELSE <<>>)

\* lines 602-617: _bentoml_config_options_opts
config_options_opts(config, server_timeout, wpr, device) ==
    <<Frag("tracing.sample_rate", "", -1, <<>>, Q(1, 1)),
      Frag("api_server.traffic.timeout", "", -1, <<>>, server_timeout),
      Frag("traffic.timeout", config.start_name, -1, <<>>, config.timeout),
      Frag("workers_per_resource", config.start_name, -1, <<>>, wpr)>>
    \o (IF Truthy(device)
        THEN IF PyLen(device) > 1
             THEN [i \in 1..PyLen(device) |->
                     Frag("resources.nvidia.com/gpu[idx]", config.start_name,
                          i - 1, device.items[i], NoneQ)]
             ELSE <<Frag("resources.nvidia.com/gpu=[list]", config.start_name,
                         -1, device.items[1], NoneQ)>>
        ELSE <<>>)

\* lines 586-590: the resource-requirement advisory
Advisory == "requires at least num_workers GPUs/CPUs"

\* Python: sep.join(parts)
RECURSIVE str_join(_, _)
str_join(sep, parts) ==
    IF parts = <<>> THEN <<>>
    ELSE IF Len(parts) = 1 THEN parts
    ELSE <<Head(parts), sep>> \o str_join(sep, Tail(parts))

\* lines 619-621: env += (" " if env else "" + " ".join(opts)); the
\* conditional expression binds looser than +
config_options_env(env, opts) ==
    env \o (IF env # <<>> THEN <<Space>> ELSE (<<>> \o str_join(Space, opts)))

\* model_start, lines 558-677.  pre: the options validate, do not validate,
\* or the user interrupts; started: how server.start ends.
model_start(pre, device_raw, wpr_opt, timeout_opt, inherited, started) ==
    /\ AtHandler("model_start")
    /\ LET config == sd_config(inv.name)
           device == parse_device_callback(device_raw, gpus)
           wpr == first_not_none(wpr_opt, config.workers_per_resource)
           server_timeout == first_not_none(timeout_opt, config.timeout)
           num_workers == num_workers_of(wpr)
           opts == config_options_opts(config, server_timeout, wpr, device)
           config_env == config_options_env(inherited, opts)
           advisory == IF num_workers > 1 THEN <<Advisory>>
                       ELSE <<>>
           built == [built |-> TRUE, device_raw |-> device_raw, device |-> device,
                     inherited |-> inherited, opts |-> opts, config_env |-> config_env,
                     num_workers |-> num_workers, env_set |-> FALSE,
                     validated |-> TRUE, interrupted |-> FALSE,
                     wpr_opt |-> wpr_opt, wpr |-> wpr]
           start_call == [protocol |-> IF inv.grpc THEN "GrpcServer" ELSE "HTTPServer",
                          config_options |-> config_env, timeout |-> server_timeout,
                          blocking |-> TRUE]
       IN IF pre = "invalid"
          THEN \* line 567: model_validate_click rejects the options
               /\ HandlerEnds(Raise("ValidationError", "invalid option"), "None")
               /\ UNCHANGED <<echoed, server_starts, launch>>
          ELSE IF pre = "domain"
          THEN \* lines 567-572: the model's configuration fails with the domain error
               /\ HandlerEnds(Raise("SDServerException", "bad weight"), "None")
               /\ UNCHANGED <<echoed, server_starts, launch>>
          ELSE IF pre = "interrupt"
          THEN /\ HandlerEnds(Raise("KeyboardInterrupt", ""), "None")
               /\ launch' = [NoLaunch EXCEPT !.validated = TRUE, !.interrupted = TRUE]
               /\ UNCHANGED <<echoed, server_starts>>
          ELSE IF wpr.num = 0
          THEN \* line 584: 1 / 0.0 raises ZeroDivisionError
               /\ HandlerEnds(Raise("ZeroDivisionError", "float division by zero"), "None")
               /\ launch' = [NoLaunch EXCEPT !.validated = TRUE, !.wpr_opt = wpr_opt,
                                             !.wpr = wpr]
               /\ UNCHANGED <<echoed, server_starts>>
          ELSE IF ~NameDefined("llm")
          THEN \* line 642: the dict display of start_env.update reads llm
               /\ HandlerEnds(Raise("NameError", "llm"), "None")
               /\ launch' = built
               /\ echoed' = echoed \o advisory
               /\ UNCHANGED server_starts
          ELSE \* lines 639-677
               /\ launch' = [built EXCEPT !.env_set = TRUE]
               /\ server_starts' = Append(server_starts, start_call)
               /\ IF started = "returns"
                  THEN /\ echoed' = echoed \o advisory \o
                                    (IF debug_mode THEN <<>> ELSE <<"Next step">>)
                       /\ IF NameDefined("llm_config")
                          THEN HandlerEnds(NoExc, "llm_config")
                          ELSE HandlerEnds(Raise("NameError", "llm_config"), "None")
                  ELSE IF IsException(started)
                  THEN /\ echoed' = echoed \o advisory \o
                                    <<"Error caught while starting LLM Server">>
                       /\ HandlerEnds(Raise(started, "server"), "None")
                  ELSE /\ echoed' = echoed \o advisory
                       /\ HandlerEnds(Raise(started, "server"), "None")
    /\ HandlerFrame

(***************************************************************************)
(* Specifications.                                                         *)
(***************************************************************************)
\* option values the invocations are drawn from
DeviceInputs ==
    {None, Tuple(<<All>>), Tuple(<<<<"0">>>>), Tuple(<<<<"0">>, <<"1">>>>),
     Tuple(<<<<"0", ",", "1">>, <<"2">>>>), Tuple(<<<<",">>>>)}
WprInputs == {NoneQ, Q(1, 1), Q(1, 2)}
\* --workers-per-resource is a click.FLOAT: absent, 1.0, 0.5, 0.25, 0.4, 0.0, -0.5
WprLaunchInputs == WprInputs \cup {Q(1, 4), Q(2, 5), Q(0, 1), Q(-1, 2)}
TimeoutInputs == {NoneQ, Q(30, 1)}
InheritedInputs == {<<>>, <<Inherited>>}
HandlerOutcomes == {"return", "SDServerException", "ValueError", "KeyboardInterrupt"}
StartOutcomes == {"returns", "RuntimeError", "KeyboardInterrupt"}

\* the process before the module is imported
ProcStart ==
    /\ gpus \in 0..MaxGpus
    /\ cached_http = [k \in ModelKeys |-> 0]
    /\ cached_grpc = [k \in ModelKeys |-> 0]
    /\ builds = <<>>
    /\ start_commands = [k \in ModelKeys |-> 0]
    /\ aliases = {}
    /\ quiet_mode = FALSE /\ debug_mode = FALSE
    /\ invocations = 0
    /\ lookup = NoLookup

\* the CLI process: the import of the module, then command invocations
Init ==
    /\ pc = "import_http"
    /\ ProcStart /\ InvIdle /\ NpOff /\ DvOff

Next ==
    \/ BuildCachedHttp
    \/ BuildCachedGrpc
    \/ \E q, d, t \in BOOLEAN : InvokeDownload(q, d, t)
    \/ \E c \in Contexts : \E n \in CommandNames : GetCommand(c, n)
    \/ LookupEnds
    \/ \E q, d, t \in BOOLEAN : InvokeStart(q, d, t)
    \/ \E k \in ModelKeys : \E q, d, t \in BOOLEAN : ApiStart(k, q, d, t)
    \/ ExceptionHandlingCall
    \/ UsageTrackingCall
    \/ \E o \in {"ok", "OSError", "KeyboardInterrupt"} : CommonParamsCall(o)
    \/ \E o \in HandlerOutcomes : download_models(o)
    \/ noop
    \/ \E pre \in {"ok", "invalid", "domain", "interrupt"} : \E dr \in DeviceInputs :
       \E w \in WprInputs : \E t \in TimeoutInputs : \E i \in InheritedInputs :
       \E st \in StartOutcomes : model_start(pre, dr, w, t, i, st)
    \/ CommonParamsReturn
    \/ UsageTrackingReturn
    \/ ExceptionHandlingReturn
    \/ Complete
    \/ NextInvocation

Spec == Init /\ [][Next]_vars

\* a process that is imported, looks commands up and runs one command, over
\* a wider range of --workers-per-resource values
NextOneInvocation ==
    \/ BuildCachedHttp
    \/ BuildCachedGrpc
    \/ \E q, d, t \in BOOLEAN : InvokeDownload(q, d, t)
    \/ \E c \in Contexts : \E n \in CommandNames : GetCommand(c, n)
    \/ LookupEnds
    \/ \E q, d, t \in BOOLEAN : InvokeStart(q, d, t)
    \/ \E k \in ModelKeys : \E q, d, t \in BOOLEAN : ApiStart(k, q, d, t)
    \/ ExceptionHandlingCall
    \/ UsageTrackingCall
    \/ \E o \in {"ok", "OSError", "KeyboardInterrupt"} : CommonParamsCall(o)
    \/ \E o \in HandlerOutcomes : download_models(o)
    \/ noop
    \/ \E pre \in {"ok", "invalid", "domain", "interrupt"} : \E dr \in DeviceInputs :
       \E w \in WprLaunchInputs : \E t \in TimeoutInputs : \E i \in InheritedInputs :
       \E st \in StartOutcomes : model_start(pre, dr, w, t, i, st)
    \/ CommonParamsReturn
    \/ UsageTrackingReturn
    \/ ExceptionHandlingReturn
    \/ Complete

SpecOneInvocation == Init /\ [][NextOneInvocation]_vars

\* the variadic option parser on every short command line
InitParse ==
    /\ pc = "off" /\ ProcStart /\ gpus = 0 /\ InvIdle /\ DvOff
    /\ np_pc = "build"
    /\ np_value \in {<<"0">>, <<"-", "q">>}
    /\ np_rargs = <<>>
    /\ np_input = NoInput

NextParse ==
    \/ NpNewToken
    \/ \E c \in ArgChars : NpAppendChar(c)
    \/ NpParse

SpecParse == InitParse /\ [][NextParse]_vars

\* the device selector on every short raw value
InitDevice ==
    /\ pc = "off" /\ ProcStart /\ InvIdle /\ NpOff
    /\ dv_pc = "build"
    /\ dv_value = None
    /\ dv_result = None

NextDevice ==
    \/ DvTuple
    \/ DvNewToken
    \/ \E c \in DeviceChars : DvAppendChar(c)
    \/ DvParse

SpecDevice == InitDevice /\ [][NextDevice]_vars

(***************************************************************************)
(* Claims.                                                                 *)
(***************************************************************************)
Dash == <<"-", "q">>

\* the layer that receives what is unwinding now
UnwindingInto(layer) ==
    pc = "unwind" /\ depth >= 1 /\ WrappedLayers[depth] = layer

\* the handler has just ended and nothing has unwound yet
HandlerEnded(h) ==
    pc = "unwind" /\ depth = Len(WrappedLayers) /\ inv.handler = h
    /\ raised_in \in {"none", "handler"} /\ entered = WrappedLayers

\* C1: when a user interrupt raised below the telemetry layer reaches the
\* error-translation layer and do-not-track is not set, the telemetry layer
\* has emitted an event whose return_code is 2 and whose error_type names
\* the interrupt.
C1_InterruptEventEmitted ==
    (UnwindingInto("exception_handling") /\ exc.kind = "KeyboardInterrupt"
        /\ ~inv.do_not_track)
    => \E i \in 1..Len(tracked) :
          tracked[i].return_code = 2 /\ tracked[i].error_type = "KeyboardInterrupt"

\* C2: when an invocation is over, the inner layer was called exactly once
\* and track was called exactly once if do-not-track is not set and never
\* if it is set, whatever the outcome of the inner layers.
C2_TrackOncePerInvocation ==
    pc = "done" =>
        /\ inner_calls = 1
        /\ Len(tracked) = IF inv.do_not_track THEN 0 ELSE 1

\* C3: the layers are entered in the order error-translation, telemetry,
\* flag-normalization, and a failure raised inside the flag-normalization
\* layer (do-not-track not set) is first recorded by the telemetry layer and
\* then reaches the error-translation layer, bypassing neither.
C3_FailureSeenByTelemetryThenTranslation ==
    /\ (pc \in {"unwind", "done"} /\ raised_in \in {"none", "handler"})
          => entered = <<"exception_handling", "usage_tracking", "common_params">>
    /\ (pc = "done" /\ raised_in \in {"common_params", "handler"} /\ ~inv.do_not_track)
          => /\ \E i, j \in 1..Len(seen) :
                   /\ i < j
                   /\ seen[i].layer = "usage_tracking" /\ seen[i].caught
                   /\ seen[j].layer = "exception_handling"
             /\ Len(tracked) = 1 /\ tracked[1].error_type # "None"

\* C4: no model key is ever constructed more than once in the process
\* lifetime, whichever path asks for the command.
C4_AtMostOneConstructionPerKey ==
    \A k \in ModelKeys :
        Cardinality({i \in 1..Len(builds) : builds[i].key = k}) <= 1

\* C5: the stub built for a GPU-requiring model with no GPU available, when
\* invoked, starts no server, emits the diagnostic and returns the default
\* configuration as its normal result.
C5_StubReturnsDefaultConfig ==
    HandlerEnded("noop") =>
        /\ server_starts = <<>>
        /\ echoed # <<>>
        /\ exc.kind = "none"
        /\ ret = "llm_config"

\* C6: every run of the launch handler whose options validate (and that the
\* user does not interrupt) starts the server of the requested protocol
\* exactly once, blocking, with the constructed configuration options and
\* the resolved timeout, and a normal return carries the configuration.
C6_ServerStartedOnce ==
    (HandlerEnded("model_start") /\ launch.validated /\ ~launch.interrupted) =>
        /\ Len(server_starts) = 1
        /\ server_starts[1].blocking
        /\ server_starts[1].protocol = (IF inv.grpc THEN "GrpcServer" ELSE "HTTPServer")
        /\ server_starts[1].config_options = launch.config_env
        /\ (exc.kind = "none" => ret = "llm_config")

\* C7: the configuration-options text the launch handler builds contains
\* every generated fragment, and keeps the inherited value in front when
\* there is one.
C7_ConfigOptionsHoldEveryFragment ==
    launch.built =>
        /\ \A i \in 1..Len(launch.opts) : launch.opts[i] \in Range(launch.config_env)
        /\ SubSeq(launch.config_env, 1, Len(launch.inherited)) = launch.inherited

\* C8: when the device option is exactly ("all",), the selector returns the
\* platform's resource count and the launch configuration holds no
\* resource-assignment fragment, indexed or not.
C8_AllYieldsNoAssignment ==
    (launch.built /\ launch.device_raw = Tuple(<<All>>)) =>
        /\ launch.device.kind = "gpu_count"
        /\ PyLen(launch.device) = gpus
        /\ \A i \in 1..Len(launch.opts) :
              launch.opts[i].key \notin {"resources.nvidia.com/gpu[idx]",
                                         "resources.nvidia.com/gpu=[list]"}

\* C9: the variadic option delivers its first value followed by the longest
\* run of the next tokens that do not begin with '-' (so neither with '--'),
\* in order, and leaves the rest of the tokens untouched; it takes every
\* token when none begins with '-'.
C9_VariadicTakesValuesUpToNextOption ==
    np_pc = "parsed" =>
        LET rest == np_input.rargs
            n == Len(np_value) - 1
            IsOption(tok) == tok # <<>> /\ tok[1] = "-"
        IN /\ 0 <= n /\ n <= Len(rest)
           /\ np_value[1] = np_input.value
           /\ \A i \in 1..n : np_value[i + 1] = rest[i] /\ ~IsOption(rest[i])
           /\ n = Len(rest) \/ IsOption(rest[n + 1])
           /\ np_rargs = SubSeq(rest, n + 1, Len(rest))
           /\ (\A i \in 1..Len(rest) : ~IsOption(rest[i])) => np_rargs = <<>>

\* `--device 0 1 -q`: 0 and 1 are collected and -q is left for the parser
C9_Witness ==
    /\ np_pc = "parsed"
    /\ np_input = [value |-> <<"0">>, rargs |-> <<<<"1">>, Dash>>]
    /\ np_value = <<<<"0">>, <<"1">>>>
    /\ np_rargs = <<Dash>>

\* the non-empty maximal runs of characters of v outside seps, in order
Runs(v, seps) ==
    LET starts == {i \in 1..Len(v) : v[i] \notin seps /\ (i = 1 \/ v[i - 1] \in seps)}
        EndOf(i) == CHOOSE j \in i..Len(v) :
                        /\ \A k \in i..j : v[k] \notin seps
                        /\ j = Len(v) \/ v[j + 1] \in seps
        Nth(k) == CHOOSE i \in starts : Cardinality({x \in starts : x < i}) = k - 1
    IN [k \in 1..Cardinality(starts) |-> SubSeq(v, Nth(k), EndOf(Nth(k)))]

\* C10: absent input gives absent; every tuple other than ("all",) gives, in
\* order, the non-empty pieces of its tokens: none for a token ",", the
\* pieces between commas for a token that contains one, the pieces between
\* whitespace for any other token.
C10_SelectorFlattensTokens ==
    dv_pc = "parsed" =>
        /\ dv_value.kind = "None" => dv_result.kind = "None"
        /\ (dv_value.kind = "tuple" /\ dv_value.items # <<All>>) =>
              LET Pieces(v) == IF v = <<",">> THEN <<>>
                               ELSE IF "," \in Range(v) THEN Runs(v, {","})
                               ELSE Runs(v, Whitespace)
              IN /\ dv_result.kind = "tuple"
                 /\ dv_result.items =
                       Flatten([i \in 1..Len(dv_value.items) |-> Pieces(dv_value.items[i])])
        /\ dv_value = Tuple(<<<<",">>>>) => dv_result = Tuple(<<>>)
        /\ dv_value = Tuple(<<<<"0", ",", "1">>, <<"2">>>>)
              => dv_result = Tuple(<<<<"0">>, <<"1">>, <<"2">>>>)

\* ("0,1", "2") has been parsed into ("0", "1", "2")
C10_Witness ==
    /\ dv_pc = "parsed"
    /\ dv_value = Tuple(<<<<"0", ",", "1">>, <<"2">>>>)
    /\ dv_result = Tuple(<<<<"0">>, <<"1">>, <<"2">>>>)

\* C11 (as claimed): the error-translation layer turns the domain error with
\* message m into a CLI error whose message is exactly
\* "[<group>] '<command>' failed: m", and reformats no other exception.
C11_MessageIsExactlyTheText ==
    [][UnwindingInto("exception_handling") =>
         IF exc.kind = "SDServerException"
         THEN exc' = [kind |-> "ClickException",
                      msg |-> [group |-> inv.group, command |-> inv.name,
                               text |-> exc.msg.text, fg |-> ""]]
         ELSE exc'.kind # "ClickException"]_vars

\* C11 (amended): the error-translation layer, the outermost one, turns the
\* domain error with message m into a CLI error whose message is the text
\* "[<group>] '<command>' failed: m" styled red, group and command being
\* those of the invoked command; no other exception is reformatted (an
\* interrupt is dropped, every other one passes unchanged), and the
\* invocation ends with what this layer leaves.
C11_DomainErrorTranslatedStyledRed ==
    [][/\ UnwindingInto("exception_handling") =>
            IF exc.kind = "SDServerException"
            THEN /\ exc' = [kind |-> "ClickException",
                            msg |-> [group |-> inv.group, command |-> inv.name,
                                     text |-> exc.msg.text, fg |-> "red"]]
                 /\ inv.group \in {"sdserver", "start"}
                 /\ depth' = 0
            ELSE /\ exc'.kind # "ClickException"
                 /\ exc.kind # "KeyboardInterrupt" => exc' = exc
       /\ pc' = "done" => exc' = exc]_vars

\* `start opt` has failed with "bad weight" and ended as the CLI error
C11_Witness ==
    /\ pc = "done"
    /\ exc = [kind |-> "ClickException",
              msg |-> [group |-> "start", command |-> "opt",
                       text |-> "bad weight", fg |-> "red"]]

\* C12: a user interrupt raised anywhere inside a wrapped command travels
\* unchanged through the inner layers to the error-translation layer, which
\* is the outermost one and swallows it: the wrapped callable returns None,
\* with no interrupt and no user-facing error left to raise.
C12_InterruptSwallowedAtErrorTranslation ==
    [][/\ (pc = "unwind" /\ depth >= 1 /\ exc.kind = "KeyboardInterrupt") =>
            IF WrappedLayers[depth] = "exception_handling"
            THEN exc' = NoExc /\ ret' = "None" /\ depth' = 0 /\ pc' = "unwind"
            ELSE exc' = exc /\ depth' = depth - 1 /\ pc' = "unwind"
       /\ (pc = "unwind" /\ depth = 0) =>
            /\ pc' = "done" /\ exc' = exc /\ ret' = ret
            /\ exc.kind # "KeyboardInterrupt"
            /\ (raised_in # "none" /\ exc.kind = "none") =>
                  /\ seen # <<>>
                  /\ seen[Len(seen)] = [layer |-> "exception_handling", caught |-> TRUE]]_vars

\* the handler of `start opt` was interrupted and the invocation has ended
\* silently
C12_Witness ==
    /\ pc = "done" /\ inv.group = "start" /\ inv.name = "opt"
    /\ raised_in = "handler" /\ launch.interrupted
    /\ exc = NoExc /\ ret = "None"
    /\ seen # <<>>
    /\ seen[Len(seen)] = [layer |-> "exception_handling", caught |-> TRUE]

C14_IdentifiersRecordedZeroBasedInOrder ==
    (launch.built /\ launch.device.kind \in {"tuple", "None"}) =>
        LET ids == launch.device.items
            n == Len(ids)
            IsIndexed(f) == f.key = "resources.nvidia.com/gpu[idx]"
            IsUnindexed(f) == f.key = "resources.nvidia.com/gpu=[list]"
            indexed == SelectSeq(launch.opts, IsIndexed)
            unindexed == SelectSeq(launch.opts, IsUnindexed)
        IN /\ n = 0 => indexed = <<>> /\ unindexed = <<>>
           /\ n = 1 => /\ indexed = <<>>
                       /\ Len(unindexed) = 1
                       /\ unindexed[1].dev = ids[1] /\ unindexed[1].idx = -1
           /\ n >= 2 => /\ unindexed = <<>>
                        /\ Len(indexed) = n
                        /\ \A i \in 1..n : indexed[i].idx = i - 1 /\ indexed[i].dev = ids[i]
           /\ \A i \in 1..Len(indexed) : indexed[i].runner = sd_config(inv.name).start_name
           /\ \A i \in 1..Len(unindexed) : unindexed[i].runner = sd_config(inv.name).start_name

\* `start opt --device 0 1`: the fragments [0]=0 and [1]=1 have been generated
C14_Witness ==
    /\ launch.built /\ inv.name = "opt"
    /\ launch.device_raw = Tuple(<<<<"0">>, <<"1">>>>)
    /\ launch.device = Tuple(<<<<"0">>, <<"1">>>>)
    /\ \E i, j \in 1..Len(launch.opts) :
          /\ i < j
          /\ launch.opts[i].key = "resources.nvidia.com/gpu[idx]"
          /\ launch.opts[i].idx = 0 /\ launch.opts[i].dev = <<"0">>
          /\ launch.opts[j].key = "resources.nvidia.com/gpu[idx]"
          /\ launch.opts[j].idx = 1 /\ launch.opts[j].dev = <<"1">>

\* C15: the launch handler uses the workers-per-resource override if given
\* and else the model's declared default; the value used is always > 0;
\* num_workers is floor(1 / workers_per_resource) for every value in (0, 1];
\* the advisory is emitted exactly when num_workers > 1.
C15_WorkersPerResourcePositiveAndFloored ==
    (HandlerEnded("model_start") /\ launch.validated /\ ~launch.interrupted) =>
        /\ launch.wpr = IF launch.wpr_opt.some THEN launch.wpr_opt
                        ELSE sd_config(inv.name).workers_per_resource
        /\ launch.wpr.num > 0
        /\ (0 < launch.wpr.num /\ launch.wpr.num <= launch.wpr.den) =>
              /\ launch.num_workers * launch.wpr.num <= launch.wpr.den
              /\ launch.wpr.den < (launch.num_workers + 1) * launch.wpr.num
        /\ (Advisory \in Range(echoed)) <=> (launch.num_workers > 1)

====
